---- MODULE Spec2Model ----
(***************************************************************************)
(* Adaptive-learning bot for bank continuity-risk training.                *)
(*                                                                         *)
(* The model covers the LearningGraph agent (ai_agent/graph/               *)
(* learning_graph.py): the per-user LearningContext, the start-of-session  *)
(* pipeline (assessment node, question-generation node with its fallback   *)
(* bank) and answer processing with streak-based difficulty adaptation;    *)
(* the stored User row and its difficulty level (services/user_service.py);*)
(* the LearningSession table; the QuestionAttempt table; the lesson        *)
(* handlers of the bot (bot/handlers/lesson_handler.py); and the retrieval *)
(* side, KnowledgeBase and QueryProcessor with its query cache             *)
(* (ai_agent/rag/knowledge_base.py, bot/handlers/chat_handler.py).         *)
(*                                                                         *)
(* A question object is a Python dict.  It is modelled as a record with a  *)
(* field keys (the set of keys present in the dict) next to the values; a value *)
(* whose key is absent is never read except through Get, which models      *)
(* dict.get(key, default).                                                 *)
(***************************************************************************)
EXTENDS Integers, Sequences, FiniteSets, TLC

(***************************************************************************)
(* Bounds of the model.                                                    *)
(***************************************************************************)
\* questions_answered of one context never grows beyond this
MaxAnswered == 5
\* consecutive_correct / consecutive_incorrect never grow beyond this
MaxStreak == 3
\* rows of the question_attempts table
MaxAttempts == 2
\* rows of the learning_sessions table
MaxSessions == 3
\* rows of either table while the lesson flow of the bot is followed
MaxLessonRows == 1

(***************************************************************************)
(* Program constants.                                                      *)
(***************************************************************************)
\* settings.questions_per_lesson
questions_per_lesson == 5
\* settings.min_lesson_score (percent)
min_lesson_score == 80
\* .limit(10) of the assessment query
RecentLimit == 10
\* difficulty levels
MinLevel == 1
MaxLevel == 5

Levels == MinLevel..MaxLevel

VARIABLES
    ids,        \* the user ids taking part in this run (fixed by Init)
    llm,        \* LearningGraph.llm is set (TRUE) or None (FALSE)
    contexts,   \* LearningGraph.contexts: user id -> LearningContext
    result,     \* what the last LearningGraph call (or answer handler) returned
    users,      \* users table: telegram id -> row (or absent)
    sessions,   \* learning_sessions table, row i has id i
    attempts,   \* question_attempts table, in insertion (created_at) order
    user_data,  \* telegram context.user_data per telegram id
    progress,   \* user_progress table, in insertion order
    store,      \* KnowledgeBase: the documents held by the vector store
    query_cache,    \* QueryProcessor.query_cache of one long-lived processor
    query_result    \* what the last QueryProcessor / chat-handler call returned

\* the state of the retrieval side (ai_agent/rag/knowledge_base.py)
rag == <<store, query_cache, query_result>>

vars == <<ids, llm, contexts, result, users, sessions, attempts, user_data, progress,
          store, query_cache, query_result>>

(***************************************************************************)
(* Question objects.                                                       *)
(***************************************************************************)
QuestionKeys == {"question", "options", "correct_answer", "explanation", "difficulty", "topic"}

\* dict.get(key, default)
Get(q, key, default) == IF key \in q.keys THEN q[key] ELSE default

\* the empty dict {}
EmptyDict ==
    [keys |-> {}, question |-> "", options |-> <<>>, correct_answer |-> 0,
     explanation |-> "", difficulty |-> 0, topic |-> ""]

\* fallback_questions of _create_fallback_question: one authored entry, level 1
fallback_questions ==
    [d \in {1} |->
        [keys |-> QuestionKeys,
         question |-> "what_does_RTO_mean",
         options |-> <<"recovery_time", "real_time_operations",
                       "technical_assessment_result", "current_operation_mode">>,
         correct_answer |-> 0,
         explanation |-> "RTO_is_recovery_time_objective",
         difficulty |-> 1,
         topic |-> "basic_concepts"]]

\* variant: fallback_questions.get(difficulty) with no default entry
create_fallback_question_no_default(difficulty) ==
    IF difficulty \in DOMAIN fallback_questions
    THEN fallback_questions[difficulty]
    ELSE EmptyDict

\* fallback_questions.get(difficulty, fallback_questions[1])
create_fallback_question(difficulty) ==
    IF difficulty \in DOMAIN fallback_questions
    THEN fallback_questions[difficulty]
    ELSE fallback_questions[1]

(***************************************************************************)
(* Knowledge store and LLM: the outcomes of the two external calls.        *)
(***************************************************************************)
\* what can happen inside KnowledgeBase.search; "nothing" stands for an empty
\* hit list, a store that is not initialized and a store that raises alike
SearchOutcomes == {"found", "nothing"}

\* KnowledgeBase.search: the documents returned; every failure is swallowed
\* and answered with the empty list
search(outcome) == IF outcome = "found" THEN <<"doc1", "doc2">> ELSE <<>>

\* a JSON object the LLM can produce when asked for difficulty d
GeneratedQuestion(d) ==
    [keys |-> QuestionKeys, question |-> "generated_question",
     options |-> <<"opt_a", "opt_b", "opt_c", "opt_d">>, correct_answer |-> 2,
     explanation |-> "generated_explanation", difficulty |-> d,
     topic |-> "generated_topic"]

JsonObjects(d) ==
    { GeneratedQuestion(d),
      \* three options only
      [GeneratedQuestion(d) EXCEPT !.options = <<"opt_a", "opt_b", "opt_c">>,
                                   !.correct_answer = 1],
      \* correct_answer outside the options
      [GeneratedQuestion(d) EXCEPT !.correct_answer = 4],
      \* most fields missing, negative correct_answer
      [EmptyDict EXCEPT !.keys = {"question", "correct_answer"},
                        !.question = "generated_question",
                        !.correct_answer = -1],
      \* {}
      EmptyDict }

\* the body of a reply: a JSON object or text that is no JSON
Bodies(d) ==
    {[json |-> TRUE, data |-> j] : j \in JsonObjects(d)}
        \cup {[json |-> FALSE, data |-> EmptyDict]}

\* response.content after strip(): an opening fence, a body, a closing fence.
\* "fence_json" is the 7-character opening of a json code block, "fence" the
\* 3-character code-block mark.
\* What llm.ainvoke can do when asked for difficulty d: raise, or answer with
\* a text: every body bare, and the well-formed question inside a closed json
\* fence, a json fence that is never closed, and a closed plain fence
NoReply == [raises |-> TRUE, prefix |-> "", body |-> [json |-> FALSE, data |-> EmptyDict],
            suffix |-> ""]

\* no call of llm.ainvoke
NotCalled == [NoReply EXCEPT !.prefix = "not_called"]

LlmOutcomes(d) ==
    {NoReply}
        \cup [raises : {FALSE}, prefix : {""}, body : Bodies(d), suffix : {""}]
        \cup {[raises |-> FALSE, prefix |-> f[1],
               body |-> [json |-> TRUE, data |-> GeneratedQuestion(d)], suffix |-> f[2]] :
                 f \in {<<"fence_json", "fence">>, <<"fence_json", "">>, <<"fence", "fence">>}}

\* lines 298-304: cut the fence, then json.loads.  [7:-3] and [3:-3] cut the
\* last three characters whatever they are: without a closing fence they
\* cut into the body.  The result is [ok, data]; ok = FALSE is JSONDecodeError.
parse_response(reply) ==
    LET fenced   == reply.prefix # ""
        \* the text handed to json.loads is exactly the body
        exact    == IF fenced THEN reply.suffix = "fence" ELSE reply.suffix = ""
    IN  IF exact /\ reply.body.json
        THEN [ok |-> TRUE, data |-> reply.body.data]
        ELSE [ok |-> FALSE, data |-> EmptyDict]

(***************************************************************************)
(* LearningContext and the nodes of the graph.                             *)
(***************************************************************************)
\* LearningContext(user_id=user_id): the dataclass defaults.  The attribute
\* current_question is not a field of the dataclass: has_current_question
\* is hasattr(context, current_question).
NewContext ==
    [current_difficulty |-> 1, questions_answered |-> 0, correct_answers |-> 0,
     consecutive_correct |-> 0, consecutive_incorrect |-> 0,
     has_current_question |-> FALSE, current_question |-> EmptyDict]

\* the last RecentLimit attempts of user_id, newest first not needed: only
\* the counts are read
RecentAttemptsIn(table, user_id) ==
    LET mine == SelectSeq(table, LAMBDA a : a.user_id = user_id)
        n    == Len(mine)
    IN  IF n <= RecentLimit THEN mine ELSE SubSeq(mine, n - RecentLimit + 1, n)
RecentAttempts(user_id) == RecentAttemptsIn(attempts, user_id)

CountCorrect(rows) == Cardinality({i \in 1..Len(rows) : rows[i].is_correct})

\* _assessment_node: the new current_difficulty, given the rows read.
\* correct_rate >= 0.8 is 5*correct >= 4*len, correct_rate <= 0.4 is
\* 5*correct <= 2*len.
assess_difficulty(level, rows) ==
    IF Len(rows) = 0 THEN level
    ELSE IF 5 * CountCorrect(rows) >= 4 * Len(rows) /\ level < 5
         THEN (IF level + 1 < 5 THEN level + 1 ELSE 5)
    ELSE IF 5 * CountCorrect(rows) <= 2 * Len(rows) /\ level > 1
         THEN (IF level - 1 > 1 THEN level - 1 ELSE 1)
    ELSE level

\* _assessment_node: [context, error]; a failing query leaves the context
\* alone and sets state["error"]
assessment_node(ctx, rows, db_ok) ==
    IF db_ok
    THEN [context |-> [ctx EXCEPT !.current_difficulty =
                                     assess_difficulty(ctx.current_difficulty, rows)],
          error |-> FALSE]
    ELSE [context |-> ctx, error |-> TRUE]

\* variant: the LLM is asked a second time when its first reply raised or
\* could not be parsed
question_generation_node_retrying(difficulty, llm_set, docs, reply) ==
    IF Len(docs) = 0
    THEN [error |-> TRUE, has_generated_question |-> FALSE,
          generated_question |-> EmptyDict, calls |-> <<"search">>]
    ELSE IF llm_set /\ ~reply.raises /\ parse_response(reply).ok
    THEN [error |-> FALSE, has_generated_question |-> TRUE,
          generated_question |-> parse_response(reply).data,
          calls |-> <<"search", "llm">>]
    ELSE [error |-> FALSE, has_generated_question |-> TRUE,
          generated_question |-> create_fallback_question(difficulty),
          calls |-> IF llm_set THEN <<"search", "llm", "llm">> ELSE <<"search">>]

\* _question_generation_node: what the node adds to the state, and calls,
\* the external calls the node made, in order: one knowledge_base.search
\* (line 263), then, when documents were found and an LLM is set, one
\* llm.ainvoke (line 292); a reply that raises or does not parse leads to the
\* fallback bank
question_generation_node(difficulty, llm_set, docs, reply) ==
    IF Len(docs) = 0
    THEN \* no content found: state["error"] is set, no question
         [error |-> TRUE, has_generated_question |-> FALSE,
          generated_question |-> EmptyDict, calls |-> <<"search">>]
    ELSE IF llm_set /\ ~reply.raises /\ parse_response(reply).ok
    THEN [error |-> FALSE, has_generated_question |-> TRUE,
          generated_question |-> parse_response(reply).data,
          calls |-> <<"search", "llm">>]
    ELSE [error |-> FALSE, has_generated_question |-> TRUE,
          generated_question |-> create_fallback_question(difficulty),
          calls |-> IF llm_set THEN <<"search", "llm">> ELSE <<"search">>]

(***************************************************************************)
(* Answer processing.                                                      *)
(***************************************************************************)
\* the one-character string U+00B2 (a superscript two): str.isdigit() is
\* true of it and int() raises ValueError on it
SuperscriptTwo == "superscript two"

\* the answer strings a caller can submit
Answers == {"0", "1", "2", "4", "abc", SuperscriptTwo}

\* str.isdigit() and int() on the one-character digit strings
DigitValue == [a \in {"0", "1", "2", "3", "4"} |->
                 CASE a = "0" -> 0 [] a = "1" -> 1 [] a = "2" -> 2
                   [] a = "3" -> 3 [] a = "4" -> 4]

\* variant: the answer read as the number of the option, counted from one
answer_index_one_based(answer) ==
    IF answer \in DOMAIN DigitValue THEN DigitValue[answer] - 1 ELSE -1

\* int(answer) if answer.isdigit() else -1
answer_index(answer) ==
    IF answer \in DOMAIN DigitValue THEN DigitValue[answer] ELSE -1

\* line 139: isdigit() lets the answer through and int() raises on it
int_raises(answer) == answer = SuperscriptTwo

\* variant: an answer lengthens its own streak and leaves the other one alone
count_answer_keeping_other_streak(ctx, is_correct) ==
    IF is_correct
    THEN [ctx EXCEPT !.questions_answered = @ + 1,
                     !.correct_answers = @ + 1,
                     !.consecutive_correct = @ + 1]
    ELSE [ctx EXCEPT !.questions_answered = @ + 1,
                     !.consecutive_incorrect = @ + 1]

\* lines 144-152: the counters after one evaluated answer
count_answer(ctx, is_correct) ==
    IF is_correct
    THEN [ctx EXCEPT !.questions_answered = @ + 1,
                     !.correct_answers = @ + 1,
                     !.consecutive_correct = @ + 1,
                     !.consecutive_incorrect = 0]
    ELSE [ctx EXCEPT !.questions_answered = @ + 1,
                     !.consecutive_incorrect = @ + 1,
                     !.consecutive_correct = 0]

\* variant: the streak rule without the tests of the level range
adapt_difficulty_unbounded(ctx) ==
    IF ctx.consecutive_correct >= 2
    THEN ctx.current_difficulty + 1
    ELSE IF ctx.consecutive_incorrect >= 2
    THEN ctx.current_difficulty - 1
    ELSE ctx.current_difficulty

\* variant: the level moves on the first answer of a streak already
adapt_difficulty_every_answer(ctx) ==
    IF ctx.consecutive_correct >= 1 /\ ctx.current_difficulty < 5
    THEN (IF ctx.current_difficulty + 1 < 5 THEN ctx.current_difficulty + 1 ELSE 5)
    ELSE IF ctx.consecutive_incorrect >= 1 /\ ctx.current_difficulty > 1
    THEN (IF ctx.current_difficulty - 1 > 1 THEN ctx.current_difficulty - 1 ELSE 1)
    ELSE ctx.current_difficulty

\* lines 161-170 (and _difficulty_adaptation_node 405-417): the level after
\* the streak rule, read on the counters that already include the answer
adapt_difficulty(ctx) ==
    IF ctx.consecutive_correct >= 2 /\ ctx.current_difficulty < 5
    THEN (IF ctx.current_difficulty + 1 < 5 THEN ctx.current_difficulty + 1 ELSE 5)
    ELSE IF ctx.consecutive_incorrect >= 2 /\ ctx.current_difficulty > 1
    THEN (IF ctx.current_difficulty - 1 > 1 THEN ctx.current_difficulty - 1 ELSE 1)
    ELSE ctx.current_difficulty

\* line 158: options[correct_answer_index] raises IndexError for an index
\* below -len(options); an index >= len(options) is answered with the text for an unknown option
feedback_raises(question_data, is_correct) ==
    LET idx     == Get(question_data, "correct_answer", 0)
        options == Get(question_data, "options", <<>>)
    IN  ~is_correct /\ idx < Len(options) /\ idx < 0 - Len(options)

\* lines 173-175
lesson_complete(ctx) == ctx.questions_answered >= questions_per_lesson
\* success_rate = correct / answered * 100 >= min_lesson_score
lesson_passed(ctx) ==
    ctx.correct_answers * 100 >= min_lesson_score * ctx.questions_answered

\* the dict a LearningGraph call returns; absent keys hold the defaults
\* below.  op and user_id name the call, response is what llm.ainvoke did
\* during it (NotCalled when the call did not reach the LLM), calls the
\* external calls of the question-generation node in the order they were made.
NoResult ==
    [op |-> "none", user_id |-> 0, response |-> NotCalled, calls |-> <<>>,
     error |-> FALSE,
     has_generated_question |-> FALSE, generated_question |-> EmptyDict,
     is_correct |-> FALSE, has_completion_data |-> FALSE, lesson_passed |-> FALSE,
     has_adaptation |-> FALSE, adaptation_made |-> FALSE, current_difficulty |-> 0]

\* variant: the answer is counted before the current question is looked for
process_answer_direct_counting_first(ctx, answer) ==
    IF ~ctx.has_current_question
    THEN [context |-> count_answer(ctx, FALSE),
          result |-> [NoResult EXCEPT !.error = TRUE]]
    ELSE IF int_raises(answer)
    THEN \* ValueError at line 139, before anything is counted
         [context |-> ctx, result |-> [NoResult EXCEPT !.error = TRUE]]
    ELSE LET question_data == ctx.current_question
             is_correct    == answer_index(answer) = Get(question_data, "correct_answer", 0)
             counted       == count_answer(ctx, is_correct)
             adapted       == [counted EXCEPT !.current_difficulty = adapt_difficulty(counted)]
         IN  IF feedback_raises(question_data, is_correct)
             THEN [context |-> counted, result |-> [NoResult EXCEPT !.error = TRUE]]
             ELSE IF lesson_complete(adapted)
             THEN [context |-> adapted,
                   result |-> [NoResult EXCEPT !.is_correct = is_correct,
                                               !.has_completion_data = TRUE,
                                               !.lesson_passed = lesson_passed(adapted)]]
             ELSE [context |-> adapted,
                   result |-> [NoResult EXCEPT !.is_correct = is_correct,
                                               !.has_adaptation = TRUE,
                                               !.adaptation_made =
                                                   (adapted.current_difficulty
                                                       # counted.current_difficulty),
                                               !.current_difficulty =
                                                   adapted.current_difficulty]]

\* _process_answer_direct: [context, result].  The context object is mutated
\* in place, so what was written before an exception stays written.
process_answer_direct(ctx, answer) ==
    IF ~ctx.has_current_question
    THEN [context |-> ctx, result |-> [NoResult EXCEPT !.error = TRUE]]
    ELSE IF int_raises(answer)
    THEN \* ValueError at line 139, before anything is counted
         [context |-> ctx, result |-> [NoResult EXCEPT !.error = TRUE]]
    ELSE LET question_data == ctx.current_question
             is_correct    == answer_index(answer) = Get(question_data, "correct_answer", 0)
             counted       == count_answer(ctx, is_correct)
             adapted       == [counted EXCEPT !.current_difficulty = adapt_difficulty(counted)]
         IN  IF feedback_raises(question_data, is_correct)
             THEN [context |-> counted, result |-> [NoResult EXCEPT !.error = TRUE]]
             ELSE IF lesson_complete(adapted)
             THEN [context |-> adapted,
                   result |-> [NoResult EXCEPT !.is_correct = is_correct,
                                               !.has_completion_data = TRUE,
                                               !.lesson_passed = lesson_passed(adapted)]]
             ELSE [context |-> adapted,
                   result |-> [NoResult EXCEPT !.is_correct = is_correct,
                                               !.has_adaptation = TRUE,
                                               !.adaptation_made =
                                                   (adapted.current_difficulty
                                                       # counted.current_difficulty),
                                               !.current_difficulty =
                                                   adapted.current_difficulty]]

(***************************************************************************)
(* Operations of LearningGraph.                                            *)
(***************************************************************************)
\* set_llm
set_llm(value) ==
    /\ llm' = value
    /\ UNCHANGED <<rag, ids, contexts, result, users, sessions, attempts, user_data, progress>>

\* variant: a session start resets the two streak counters as well
session_context_fresh_streaks(user_id) ==
    LET context == IF user_id \in DOMAIN contexts THEN contexts[user_id] ELSE NewContext
    IN  [context EXCEPT !.questions_answered = 0, !.correct_answers = 0,
                        !.consecutive_correct = 0, !.consecutive_incorrect = 0]

\* the context start_learning_session works on: created on first use, then
\* topic and the two lesson counters reset (lines 94-100)
session_context(user_id) ==
    LET context == IF user_id \in DOMAIN contexts THEN contexts[user_id] ELSE NewContext
    IN  [context EXCEPT !.questions_answered = 0, !.correct_answers = 0]

\* the state the graph returns: assessment, then question generation; a key
\* written by a node stays in the state
run_graph(user_id, context, rows, db_ok, docs, reply) ==
    LET assessed  == assessment_node(context, rows, db_ok)
        generated == question_generation_node(assessed.context.current_difficulty,
                                              llm, docs, reply)
    IN  [context |-> assessed.context,
         result  |-> [NoResult EXCEPT
                        !.op = "start_learning_session",
                        !.user_id = user_id,
                        !.response = IF llm /\ Len(docs) > 0 THEN reply ELSE NotCalled,
                        !.calls = generated.calls,
                        !.error = assessed.error \/ generated.error,
                        !.has_generated_question = generated.has_generated_question,
                        !.generated_question = generated.generated_question]]

\* start_learning_session(user_id).  The LLM is called only when documents
\* were found and an LLM is set.
start_learning_session(user_id) ==
    \E db_ok \in BOOLEAN, outcome \in SearchOutcomes :
      LET context == session_context(user_id)
          level   == assessment_node(context, RecentAttempts(user_id), db_ok)
                        .context.current_difficulty
          called  == llm /\ Len(search(outcome)) > 0
      IN  \E reply \in IF called THEN LlmOutcomes(level) ELSE {NoReply} :
            LET run == run_graph(user_id, context, RecentAttempts(user_id), db_ok,
                                search(outcome), reply)
            IN  /\ contexts' = [u \in DOMAIN contexts \cup {user_id} |->
                                   IF u = user_id THEN run.context ELSE contexts[u]]
                /\ result' = run.result
                /\ UNCHANGED <<rag, ids, llm, users, sessions, attempts, user_data, progress>>

\* the caller holds the generated question on the context, as
\* _process_answer_direct expects (lines 134-138): context.current_question
set_current_question(user_id) ==
    /\ user_id \in DOMAIN contexts
    /\ result.op = "start_learning_session"
    /\ result.user_id = user_id
    /\ result.has_generated_question
    /\ contexts' = [contexts EXCEPT ![user_id].has_current_question = TRUE,
                                    ![user_id].current_question = result.generated_question]
    /\ UNCHANGED <<rag, ids, llm, result, users, sessions, attempts, user_data, progress>>

\* variant: one context object shared by all users, so that an answer is
\* written to every context
process_answer_shared(user_id, answer) ==
    IF user_id \notin DOMAIN contexts
    THEN /\ result' = [NoResult EXCEPT !.op = "process_answer", !.user_id = user_id,
                                       !.error = TRUE]
         /\ UNCHANGED <<rag, ids, llm, contexts, users, sessions, attempts, user_data, progress>>
    ELSE LET done == process_answer_direct(contexts[user_id], answer)
         IN  /\ contexts' = [u \in DOMAIN contexts |-> done.context]
             /\ result' = [done.result EXCEPT !.op = "process_answer",
                                              !.user_id = user_id]
             /\ UNCHANGED <<rag, ids, llm, users, sessions, attempts, user_data, progress>>

\* process_answer(user_id, question_id, answer)
process_answer(user_id, answer) ==
    IF user_id \notin DOMAIN contexts
    THEN /\ result' = [NoResult EXCEPT !.op = "process_answer", !.user_id = user_id,
                                       !.error = TRUE]
         /\ UNCHANGED <<rag, ids, llm, contexts, users, sessions, attempts, user_data, progress>>
    ELSE LET done == process_answer_direct(contexts[user_id], answer)
         IN  /\ contexts' = [contexts EXCEPT ![user_id] = done.context]
             /\ result' = [done.result EXCEPT !.op = "process_answer",
                                              !.user_id = user_id]
             /\ UNCHANGED <<rag, ids, llm, users, sessions, attempts, user_data, progress>>

\* clear_user_context
clear_user_context(user_id) ==
    /\ user_id \in DOMAIN contexts
    /\ contexts' = [u \in DOMAIN contexts \ {user_id} |-> contexts[u]]
    /\ UNCHANGED <<rag, ids, llm, result, users, sessions, attempts, user_data, progress>>

(***************************************************************************)
(* Tables: users, learning_sessions, question_attempts.                    *)
(***************************************************************************)
NoUserRow == [registered |-> FALSE, id |-> 0, current_difficulty_level |-> 0]

\* the autoincrement primary key of the next users row
NextUserId == Cardinality({t \in DOMAIN users : users[t].registered}) + 1

\* create_or_update_user: a new row takes the column default level 1; an
\* existing row keeps its id and level
create_or_update_user(telegram_id) ==
    /\ users' = IF users[telegram_id].registered
                THEN users
                ELSE [users EXCEPT ![telegram_id] =
                        [registered |-> TRUE, id |-> NextUserId,
                         current_difficulty_level |-> 1]]
    /\ UNCHANGED <<rag, ids, llm, contexts, result, sessions, attempts, user_data, progress>>

\* variant: the update is issued without the range test
updated_row_unchecked(row, difficulty_level) ==
    IF row.registered
    THEN [row EXCEPT !.current_difficulty_level = difficulty_level]
    ELSE row

\* UserService.update_difficulty_level on one row: levels outside 1..5 are
\* refused before the update is issued
updated_row(row, difficulty_level) ==
    IF difficulty_level < 1 \/ difficulty_level > 5
    THEN row
    ELSE IF row.registered
    THEN [row EXCEPT !.current_difficulty_level = difficulty_level]
    ELSE row

\* UserService.update_difficulty_level(telegram_id, difficulty_level), which
\* handle_difficulty_change calls with the level of the pressed button
update_difficulty_level(telegram_id, difficulty_level) ==
    /\ users' = [users EXCEPT ![telegram_id] = updated_row(@, difficulty_level)]
    /\ UNCHANGED <<rag, ids, llm, contexts, result, sessions, attempts, user_data, progress>>

SessionStates == {"active", "paused", "completed", "abandoned"}

\* UserService.create_learning_session: the table after pausing the active
\* sessions of user_id and inserting a new active one (one transaction)
with_new_session(rows, user_id) ==
    Append([i \in 1..Len(rows) |->
               IF rows[i].user_id = user_id /\ rows[i].session_state = "active"
               THEN [rows[i] EXCEPT !.session_state = "paused"]
               ELSE rows[i]],
           [user_id |-> user_id, session_state |-> "active"])

\* UserService.create_learning_session(user_id)
UserService_create_learning_session(user_id) ==
    /\ sessions' = with_new_session(sessions, user_id)
    /\ UNCHANGED <<rag, ids, llm, contexts, result, users, attempts, user_data, progress>>

\* UserService.update_session_state: the table after the update by id
with_session_state(rows, session_id, state) ==
    [i \in 1..Len(rows) |->
        IF i = session_id THEN [rows[i] EXCEPT !.session_state = state] ELSE rows[i]]

\* UserService.update_session_state(session_id, state)
update_session_state(session_id, state) ==
    /\ sessions' = with_session_state(sessions, session_id, state)
    /\ UNCHANGED <<rag, ids, llm, contexts, result, users, attempts, user_data, progress>>

\* variant: the attempt of a user is kept as one row per user, written over
with_attempt_upsert(rows, user_id, user_answer, is_correct, session_id) ==
    IF \E i \in 1..Len(rows) : rows[i].user_id = user_id
    THEN [i \in 1..Len(rows) |->
            IF rows[i].user_id = user_id
            THEN [rows[i] EXCEPT !.user_answer = user_answer, !.is_correct = is_correct,
                                 !.session_id = session_id]
            ELSE rows[i]]
    ELSE Append(rows, [user_id |-> user_id, question_id |-> 0,
                       user_answer |-> user_answer, is_correct |-> is_correct,
                       session_id |-> session_id])

\* the row ProgressService.record_question_attempt inserts (question_id is
\* None for generated questions, so no lesson statistics are touched)
with_attempt(rows, user_id, user_answer, is_correct, session_id) ==
    Append(rows, [user_id |-> user_id, question_id |-> 0, user_answer |-> user_answer,
                  is_correct |-> is_correct, session_id |-> session_id])

\* ProgressService.record_question_attempt(user_id, None, user_answer,
\* is_correct, session_id=session_id)
record_question_attempt(user_id, user_answer, is_correct, session_id) ==
    /\ attempts' = with_attempt(attempts, user_id, user_answer, is_correct, session_id)
    /\ UNCHANGED <<rag, ids, llm, contexts, result, users, sessions, user_data, progress>>

\* questions.lesson_id, read by _update_lesson_attempt_stats: question 1 is
\* a question of lesson 1, no other question is in the table; 0 is None
QuestionIds == {0, 1, 2}
lesson_id_of(question_id) == IF question_id = 1 THEN 1 ELSE 0

\* a UserProgress row as it is flushed: the column defaults (models.py
\* 186-192) fill what the constructor call left out
new_progress(user_id, lesson_id, status, completion_percentage) ==
    [user_id |-> user_id, lesson_id |-> lesson_id, status |-> status,
     completion_percentage |-> completion_percentage,
     total_attempts |-> 0, correct_attempts |-> 0]

\* the rows of user_progress selected by (user_id, lesson_id)
progress_of(rows, user_id, lesson_id) ==
    {i \in 1..Len(rows) : rows[i].user_id = user_id /\ rows[i].lesson_id = lesson_id}

\* _update_lesson_attempt_stats and the commit that ends get_session: the
\* user_progress table afterwards.  Any exception is swallowed (338).  On a
\* new UserProgress object total_attempts is still None (the default is set
\* at flush), so += 1 at line 330 raises TypeError; the pending row is then
\* flushed with its defaults by the commit of get_session.
update_lesson_attempt_stats(rows, user_id, question_id, is_correct, db_ok) ==
    LET lesson_id == lesson_id_of(question_id)
        found     == progress_of(rows, user_id, lesson_id)
    IN  IF ~db_ok \/ lesson_id = 0
        THEN rows
        ELSE IF found = {}
        THEN Append(rows, new_progress(user_id, lesson_id, "in_progress", 0))
        ELSE LET i == CHOOSE i \in found : TRUE
             IN  [rows EXCEPT ![i].total_attempts = @ + 1,
                              ![i].correct_attempts = IF is_correct THEN @ + 1 ELSE @]

\* ProgressService.record_question_attempt(user_id, question_id, ...): the
\* insert is committed at line 284, the statistics of the lesson are
\* updated after that; insert_ok and stats_ok say whether the database
\* answers in the two parts
record_question_attempt_on(user_id, question_id, user_answer, is_correct, session_id) ==
    \E insert_ok \in BOOLEAN, stats_ok \in BOOLEAN :
      IF ~insert_ok
      THEN UNCHANGED vars
      ELSE /\ attempts' = Append(attempts,
                                 [user_id |-> user_id, question_id |-> question_id,
                                  user_answer |-> user_answer, is_correct |-> is_correct,
                                  session_id |-> session_id])
           /\ progress' = IF question_id # 0
                          THEN update_lesson_attempt_stats(progress, user_id, question_id,
                                                           is_correct, stats_ok)
                          ELSE progress
           /\ UNCHANGED <<rag, ids, llm, contexts, result, users, sessions, user_data>>

\* completion_percentage and status as update_lesson_progress is given
\* them; -1 and "" stand for None
Percentages == {-1, 100}
Statuses == {"", "completed"}

\* ProgressService.update_lesson_progress: the table after the upsert
with_lesson_progress(rows, user_id, lesson_id, completion_percentage, status) ==
    LET found == progress_of(rows, user_id, lesson_id)
    IN  IF found = {}
        THEN Append(rows, new_progress(user_id, lesson_id,
                                       IF status = "" THEN "in_progress" ELSE status,
                                       IF completion_percentage = -1 THEN 0
                                       ELSE completion_percentage))
        ELSE LET i == CHOOSE i \in found : TRUE
             IN  [rows EXCEPT
                    ![i].completion_percentage =
                        IF completion_percentage = -1 THEN @ ELSE completion_percentage,
                    ![i].status = IF status = "" THEN @ ELSE status]

\* ProgressService.update_lesson_progress(user_id, lesson_id, ...)
update_lesson_progress(user_id, lesson_id, completion_percentage, status) ==
    \E db_ok \in BOOLEAN :
      /\ progress' = IF db_ok
                     THEN with_lesson_progress(progress, user_id, lesson_id,
                                               completion_percentage, status)
                     ELSE progress
      /\ UNCHANGED <<rag, ids, llm, contexts, result, users, sessions, attempts, user_data>>

\* LearningGraph._save_question_attempt: one more row without question and
\* session; a failure is logged and nothing is stored
save_question_attempt(user_id, user_answer, is_correct) ==
    \E db_ok \in BOOLEAN :
      /\ attempts' = IF db_ok
                     THEN with_attempt(attempts, user_id, user_answer, is_correct, 0)
                     ELSE attempts
      /\ UNCHANGED <<rag, ids, llm, contexts, result, users, sessions, user_data, progress>>

(***************************************************************************)
(* ProgressService methods the lesson handlers call and the variant of     *)
(* start_learning_session they address.  Their bodies are not part of the  *)
(* source tree; they follow sections 4.1, 4.3 and 7 of the specification.  *)
(***************************************************************************)
\* calculate_next_difficulty: one step per answer, clamped to 1..5
calculate_next_difficulty(current_answer_correct, current_difficulty) ==
    LET moved == IF current_answer_correct THEN current_difficulty + 1
                 ELSE current_difficulty - 1
    IN  IF moved > 5 THEN 5 ELSE IF moved < 1 THEN 1 ELSE moved

\* update_user_difficulty_level: the stored level of the user's row
update_user_difficulty_level(rows, telegram_id, new_difficulty) ==
    IF rows[telegram_id].registered
    THEN [rows EXCEPT ![telegram_id].current_difficulty_level = new_difficulty]
    ELSE rows

\* get_personalized_question_params(...).get("difficulty", 1): the stored
\* level, 1 for an unknown user
personalized_difficulty(telegram_id) ==
    IF users[telegram_id].registered
    THEN users[telegram_id].current_difficulty_level
    ELSE 1

\* start_learning_session(user_id, difficulty_override=..., focus_topics=...):
\* the session context takes the requested level, then the graph runs
start_with_override(user_id, difficulty_override, rows, db_ok, docs, reply) ==
    run_graph(user_id,
              [session_context(user_id) EXCEPT !.current_difficulty = difficulty_override],
              rows, db_ok, docs, reply)

(***************************************************************************)
(* Lesson handlers of the bot.  One handler run is one step; db_ok says    *)
(* whether the database answers during that run.                           *)
(***************************************************************************)
NoUserData ==
    [has_current_question |-> FALSE, current_question |-> EmptyDict,
     questions_answered |-> 0, correct_answers |-> 0,
     session_id |-> 0, current_difficulty |-> 0]

\* get_user_by_telegram_id inside a try: the row, or None (registered = FALSE)
fetched_user(telegram_id, db_ok) ==
    IF db_ok THEN users[telegram_id] ELSE NoUserRow

\* generate_and_show_question, lines 440-460: the level to ask for and what
\* is kept of it in user_data
requested_difficulty(telegram_id, data, db_ok) ==
    IF data.current_difficulty = 0
    THEN (IF db_ok THEN personalized_difficulty(telegram_id) ELSE 1)
    ELSE data.current_difficulty

\* show_question: the question becomes user_data["current_question"]
show_question(data, question_data) ==
    [data EXCEPT !.has_current_question = TRUE, !.current_question = question_data]

\* generate_and_show_question: [user_data, context, result]
generate_and_show_question(telegram_id, data, rows, db_ok, docs, reply) ==
    LET current_difficulty == requested_difficulty(telegram_id, data, db_ok)
        kept == IF data.current_difficulty = 0 /\ db_ok
                THEN [data EXCEPT !.current_difficulty = current_difficulty]
                ELSE data
        run  == start_with_override(telegram_id, current_difficulty, rows, db_ok,
                                    docs, reply)
    IN  [user_data |-> IF run.result.error \/ ~run.result.has_generated_question
                       THEN kept
                       ELSE show_question(kept, run.result.generated_question),
         context |-> run.context,
         result |-> run.result]

\* the level the LLM is asked for in such a run
asked_level(telegram_id, data, rows, db_ok) ==
    assessment_node([session_context(telegram_id) EXCEPT
                        !.current_difficulty = requested_difficulty(telegram_id, data, db_ok)],
                    rows, db_ok).context.current_difficulty

\* the external outcomes of one question generation
Generation(telegram_id, data, rows, db_ok) ==
    {<<search(outcome), reply>> :
        outcome \in SearchOutcomes,
        reply \in IF llm THEN LlmOutcomes(asked_level(telegram_id, data, rows, db_ok))
                  ELSE {NoReply}}

\* handle_start_learning: the lesson counters are reset, the theory is shown
handle_start_learning(telegram_id) ==
    /\ user_data' = [user_data EXCEPT ![telegram_id].questions_answered = 0,
                                      ![telegram_id].correct_answers = 0]
    /\ UNCHANGED <<rag, ids, llm, contexts, result, users, sessions, attempts, progress>>

\* create_learning_session(user) of the handler: the id of the new session,
\* None (0) without a user
create_learning_session(user) ==
    IF user.registered THEN Len(sessions) + 1 ELSE 0

\* handle_start_questions
handle_start_questions(telegram_id) ==
    \E db_ok \in BOOLEAN :
      LET user       == fetched_user(telegram_id, db_ok)
          session_id == create_learning_session(user)
          data       == [user_data[telegram_id] EXCEPT !.session_id = session_id]
      IN  \E g \in Generation(telegram_id, data, RecentAttempts(telegram_id), db_ok) :
            LET shown == generate_and_show_question(telegram_id, data,
                            RecentAttempts(telegram_id), db_ok, g[1], g[2])
            IN  /\ sessions' = IF user.registered
                               THEN with_new_session(sessions, user.id)
                               ELSE sessions
                /\ user_data' = [user_data EXCEPT ![telegram_id] = shown.user_data]
                /\ contexts' = [u \in DOMAIN contexts \cup {telegram_id} |->
                                   IF u = telegram_id THEN shown.context ELSE contexts[u]]
                /\ result' = shown.result
                /\ UNCHANGED <<rag, ids, llm, users, attempts, progress>>

\* variant: moving on to the next question counts as an answered question
next_question_counting(telegram_id, table) ==
    \E db_ok \in BOOLEAN :
      LET data == user_data[telegram_id]
          rows == RecentAttemptsIn(table, telegram_id)
      IN  IF data.current_difficulty = 0 /\ ~db_ok
          THEN /\ attempts' = table
               /\ UNCHANGED <<rag, ids, llm, contexts, result, users, sessions, user_data, progress>>
          ELSE \E g \in Generation(telegram_id, data, rows, db_ok) :
                 LET shown == generate_and_show_question(telegram_id, data, rows, db_ok,
                                                         g[1], g[2])
                 IN  /\ user_data' = [user_data EXCEPT
                                        ![telegram_id] =
                                            [shown.user_data EXCEPT
                                                !.questions_answered = @ + 1]]
                     /\ contexts' = [u \in DOMAIN contexts \cup {telegram_id} |->
                                        IF u = telegram_id THEN shown.context
                                        ELSE contexts[u]]
                     /\ result' = shown.result
                     /\ attempts' = table
                     /\ UNCHANGED <<rag, ids, llm, users, sessions, progress>>

\* the body of handle_next_question, run when the question_attempts table
\* holds table: without a level in user_data the parameters are read
\* outside any inner try, so a database failure ends the handler
next_question(telegram_id, table) ==
    \E db_ok \in BOOLEAN :
      LET data == user_data[telegram_id]
          rows == RecentAttemptsIn(table, telegram_id)
      IN  IF data.current_difficulty = 0 /\ ~db_ok
          THEN /\ attempts' = table
               /\ UNCHANGED <<rag, ids, llm, contexts, result, users, sessions, user_data, progress>>
          ELSE \E g \in Generation(telegram_id, data, rows, db_ok) :
                 LET shown == generate_and_show_question(telegram_id, data, rows, db_ok,
                                                         g[1], g[2])
                 IN  /\ user_data' = [user_data EXCEPT ![telegram_id] = shown.user_data]
                     /\ contexts' = [u \in DOMAIN contexts \cup {telegram_id} |->
                                        IF u = telegram_id THEN shown.context
                                        ELSE contexts[u]]
                     /\ result' = shown.result
                     /\ attempts' = table
                     /\ UNCHANGED <<rag, ids, llm, users, sessions, progress>>

\* handle_next_question
handle_next_question(telegram_id) == next_question(telegram_id, attempts)

\* handle_skip_question when the database answers the user lookup (db_ok)
\* and the insert of the attempt (insert_ok): the skip is recorded for a
\* known user as a wrong answer "skipped", then the next question is shown;
\* the user lookup is not in a try of its own, so a database failure there
\* ends the handler
handle_skip_question_on(telegram_id, db_ok, insert_ok) ==
    IF ~db_ok
    THEN UNCHANGED vars
    ELSE LET user == users[telegram_id]
         IN  next_question(telegram_id,
                           IF user.registered /\ insert_ok
                           THEN with_attempt(attempts, user.id, "skipped", FALSE,
                                             user_data[telegram_id].session_id)
                           ELSE attempts)

\* handle_skip_question
handle_skip_question(telegram_id) ==
    \E db_ok \in BOOLEAN, insert_ok \in BOOLEAN :
        handle_skip_question_on(telegram_id, db_ok, insert_ok)

\* check_lesson_completion, lines 705-711: the counters after the answer
counted_answer(data, is_correct) ==
    [data EXCEPT !.questions_answered = @ + 1,
                 !.correct_answers = IF is_correct THEN @ + 1 ELSE @]

\* check_lesson_completion, lines 713-739: the lesson is declared complete
\* (and passed) when at least four answers are counted and three quarters
\* of them are correct; there is no other outcome
lesson_questions == 4
check_lesson_completion(data, is_correct) ==
    LET counted == counted_answer(data, is_correct)
    IN  /\ counted.questions_answered >= lesson_questions
        /\ counted.correct_answers * 4 >= 3 * counted.questions_answered

\* variant: the next level is computed from the level held in user_data, not
\* from the difficulty of the question
process_answer_and_get_feedback_from_level(telegram_id, data, is_correct, user_answer, question_data, current_difficulty, user, db_ok) ==
    LET level == IF data.current_difficulty = 0 THEN current_difficulty
                 ELSE data.current_difficulty
        new_difficulty == calculate_next_difficulty(is_correct, level)
        raises == feedback_raises(question_data, is_correct)
        stored == IF db_ok
                  THEN update_user_difficulty_level(users, telegram_id, new_difficulty)
                  ELSE users
    IN  IF ~db_ok \/ raises
        THEN [raised |-> raises, adaptive |-> FALSE, user_data |-> data,
              users |-> stored, attempts |-> attempts]
        ELSE [raised |-> FALSE, adaptive |-> TRUE,
              user_data |-> [data EXCEPT !.current_difficulty = new_difficulty],
              users |-> stored,
              attempts |-> IF user.registered
                           THEN with_attempt(attempts, user.id, user_answer, is_correct,
                                             data.session_id)
                           ELSE attempts]

\* process_answer_and_get_feedback, lines 639-698: [raised, user_data, users,
\* attempts].  The stored level is written (652) before the correct option
\* is looked up (660); an IndexError there is caught at 688 and raised
\* again by the same lookup at 697.  A database failure skips the adaptive
\* branch as a whole.
process_answer_and_get_feedback(telegram_id, data, is_correct, user_answer, question_data, current_difficulty, user, db_ok) ==
    LET new_difficulty == calculate_next_difficulty(is_correct, current_difficulty)
        raises == feedback_raises(question_data, is_correct)
        stored == IF db_ok
                  THEN update_user_difficulty_level(users, telegram_id, new_difficulty)
                  ELSE users
    IN  IF ~db_ok \/ raises
        THEN [raised |-> raises, adaptive |-> FALSE, user_data |-> data,
              users |-> stored, attempts |-> attempts]
        ELSE [raised |-> FALSE, adaptive |-> TRUE,
              user_data |-> [data EXCEPT !.current_difficulty = new_difficulty],
              users |-> stored,
              attempts |-> IF user.registered
                           THEN with_attempt(attempts, user.id, user_answer, is_correct,
                                             data.session_id)
                           ELSE attempts]

\* handle_answer for the button answer_<button>
handle_answer(telegram_id, button) ==
    \E db_ok \in BOOLEAN :
      LET data          == user_data[telegram_id]
          question_data == data.current_question
      IN  IF ~data.has_current_question \/ question_data.keys = {}
          THEN \* lines 568-574: the message "question data not found" is the
               \* whole outcome
               /\ result' = [NoResult EXCEPT !.op = "handle_answer",
                                             !.user_id = telegram_id, !.error = TRUE]
               /\ UNCHANGED <<rag, ids, llm, contexts, users, sessions, attempts, user_data,
                              progress>>
          ELSE LET is_correct == button = Get(question_data, "correct_answer", 0)
                   current_difficulty == Get(question_data, "difficulty", 1)
                   user == fetched_user(telegram_id, db_ok)
                   done == process_answer_and_get_feedback(telegram_id, data, is_correct,
                              ToString(button), question_data, current_difficulty, user,
                              db_ok)
               IN  /\ user_data' = [user_data EXCEPT ![telegram_id] =
                                       IF done.raised THEN done.user_data
                                       ELSE counted_answer(done.user_data, is_correct)]
                   /\ users' = done.users
                   /\ attempts' = done.attempts
                   /\ result' = IF done.raised
                                THEN [NoResult EXCEPT !.op = "handle_answer",
                                                      !.user_id = telegram_id,
                                                      !.error = TRUE]
                                ELSE [NoResult EXCEPT !.op = "handle_answer",
                                                      !.user_id = telegram_id,
                                                      !.is_correct = is_correct,
                                                      !.has_adaptation = done.adaptive,
                                                      !.has_completion_data =
                                                          check_lesson_completion(
                                                              done.user_data, is_correct),
                                                      !.lesson_passed =
                                                          check_lesson_completion(
                                                              done.user_data, is_correct)]
                   /\ UNCHANGED <<rag, ids, llm, contexts, sessions, progress>>

\* handle_complete_lesson: the lesson counters are reset
handle_complete_lesson(telegram_id) ==
    /\ user_data' = [user_data EXCEPT ![telegram_id].questions_answered = 0,
                                      ![telegram_id].correct_answers = 0]
    /\ UNCHANGED <<rag, ids, llm, contexts, result, users, sessions, attempts, progress>>

(***************************************************************************)
(* Retrieval: KnowledgeBase and QueryProcessor                             *)
(* (ai_agent/rag/knowledge_base.py).                                       *)
(*                                                                         *)
(* A query is a Python str, modelled as the sequence of its characters.    *)
(* A document of the store is identified by its metadata difficulty; the   *)
(* store holds qa_pair documents only, so that get_related_questions finds *)
(* no document of type "question".                                         *)
(***************************************************************************)
\* the queries a caller can submit
Queries ==
    { <<"R", "?">>, <<"r">>, <<" ", "r", " ">>,
      <<"r", " ", " ", "k">>, <<"r", " ", "k", "!">>, <<"k">> }

\* the difficulty levels of the documents that can be loaded
DocLevels == {1, 3}

\* str.lower() on one character
lower_char(c) == CASE c = "R" -> "r" [] c = "K" -> "k" [] OTHER -> c

\* str.lower()
lower(q) == [i \in 1..Len(q) |-> lower_char(q[i])]

\* " ".join(q.split()) after strip(): a blank is kept when a word ended just
\* before it and another word follows
blank_kept(q, i) ==
    /\ i > 1
    /\ q[i - 1] # " "
    /\ \E j \in (i + 1)..Len(q) : q[j] # " "

RECURSIVE join_split_from(_, _)
join_split_from(q, i) ==
    IF i > Len(q) THEN << >>
    ELSE (IF q[i] # " " \/ blank_kept(q, i) THEN <<q[i]>> ELSE << >>)
            \o join_split_from(q, i + 1)

\* str.rstrip(".,!?;:")
Punctuation == {".", ",", "!", "?", ";", ":"}

RECURSIVE rstrip(_)
rstrip(q) ==
    IF Len(q) > 0 /\ q[Len(q)] \in Punctuation
    THEN rstrip(SubSeq(q, 1, Len(q) - 1))
    ELSE q

\* QueryProcessor._normalize_query
normalize_query(query) == rstrip(join_split_from(lower(query), 1))

\* QueryProcessor._classify_query: none of the keyword lists occurs in
\* Queries, which leaves the test on the final question mark
classify_query(query) ==
    IF Len(query) > 0 /\ lower(query)[Len(query)] = "?" THEN "question" ELSE "general"

\* KnowledgeBase.search(query, limit, filter_metadata) on a store s: the
\* documents of the wanted difficulty (0: no filter); the similarity search
\* returns the nearest documents whatever the query
kb_search(s, difficulty) ==
    IF difficulty = 0 THEN s ELSE {d \in s : d = difficulty}

\* KnowledgeBase.get_context_for_question(question, difficulty): the
\* documents of that difficulty, or, when there is none, of any difficulty;
\* searches counts the calls of search
get_context_for_question(s, difficulty) ==
    IF kb_search(s, difficulty) # {}
    THEN [context |-> kb_search(s, difficulty), searches |-> 1]
    ELSE [context |-> kb_search(s, 0), searches |-> 2]

\* QueryProcessor._calculate_confidence, in hundredths: len / 5 capped at 1,
\* plus 0.1 for every qa_pair document, capped at 1
calculate_confidence(documents) ==
    IF documents = {} THEN 0
    ELSE LET n    == Cardinality(documents)
             base == IF 20 * n > 100 THEN 100 ELSE 20 * n
         IN  IF base + 10 * n > 100 THEN 100 ELSE base + 10 * n

\* the user_context argument of process_query: None, a dict without the
\* key, a dict with a difficulty, and a value that is no dict
UserContexts ==
    {[kind |-> "none", difficulty |-> 0], [kind |-> "dict", difficulty |-> 0],
     [kind |-> "other", difficulty |-> 0]}
        \cup [kind : {"dict"}, difficulty : DocLevels]

\* user_context.get("difficulty", 1) if user_context else 1
user_difficulty(user_context) ==
    IF user_context.kind = "dict" /\ user_context.difficulty # 0
    THEN user_context.difficulty
    ELSE 1

\* user_context.get raises AttributeError on a value that is no dict
user_context_raises(user_context) == user_context.kind = "other"

\* the dict process_query builds on a cache miss (lines 447-470)
query_answer(s, query, user_context) ==
    [query |-> query,
     normalized_query |-> normalize_query(query),
     query_type |-> classify_query(query),
     context |-> get_context_for_question(s, user_difficulty(user_context)).context,
     relevant_documents |-> kb_search(s, 0),
     confidence |-> calculate_confidence(kb_search(s, 0)),
     suggestions |-> << >>]

\* no result dict
NoAnswer == query_answer({}, << >>, [kind |-> "none", difficulty |-> 0])

\* what a call returned: op names the call and key is the normalized query
\* it computed, error is the {"error": ...} dict, value the result dict,
\* searches the number of KnowledgeBase.search calls the call made
NoQueryResult ==
    [op |-> "none", key |-> << >>, error |-> FALSE, value |-> NoAnswer, searches |-> 0]

\* variant: no cache lookup, every call computes and stores its result
process_query_on_uncached(cache, s, query, user_context) ==
    LET normalized_query == normalize_query(query)
    IN  IF user_context_raises(user_context)
        THEN [returned |-> [NoQueryResult EXCEPT !.op = "process_query",
                                                  !.key = normalized_query,
                                                  !.error = TRUE],
              cache |-> cache]
        ELSE LET answer == query_answer(s, query, user_context)
             IN  [returned |->
                    [NoQueryResult EXCEPT
                       !.op = "process_query",
                       !.key = normalized_query,
                       !.value = answer,
                       !.searches =
                          get_context_for_question(s, user_difficulty(user_context)).searches
                             + 2],
                  cache |-> [k \in DOMAIN cache \cup {normalized_query} |->
                               IF k = normalized_query THEN answer ELSE cache[k]]]

\* QueryProcessor.process_query on a processor whose cache is cache: the
\* value returned and the cache afterwards
process_query_on(cache, s, query, user_context) ==
    LET normalized_query == normalize_query(query)
    IN  IF normalized_query \in DOMAIN cache
        THEN [returned |-> [NoQueryResult EXCEPT !.op = "process_query",
                                                  !.key = normalized_query,
                                                  !.value = cache[normalized_query]],
              cache |-> cache]
        ELSE IF user_context_raises(user_context)
        THEN [returned |-> [NoQueryResult EXCEPT !.op = "process_query",
                                                  !.key = normalized_query,
                                                  !.error = TRUE],
              cache |-> cache]
        ELSE LET answer == query_answer(s, query, user_context)
             IN  [returned |->
                    [NoQueryResult EXCEPT
                       !.op = "process_query",
                       !.key = normalized_query,
                       !.value = answer,
                       !.searches =
                          get_context_for_question(s, user_difficulty(user_context)).searches
                             + 2],
                  cache |-> [k \in DOMAIN cache \cup {normalized_query} |->
                               IF k = normalized_query THEN answer ELSE cache[k]]]

\* process_query(query, user_context) on the long-lived processor.  The
\* caller awaits the call before it makes the next one.
process_query(query, user_context) ==
    LET done == process_query_on(query_cache, store, query, user_context)
    IN  /\ query_cache' = done.cache
        /\ query_result' = done.returned
        /\ UNCHANGED <<ids, llm, contexts, result, users, sessions, attempts, user_data,
                       progress, store>>

\* QueryProcessor.clear_cache
clear_cache ==
    /\ query_cache' = << >>
    /\ query_result' = [NoQueryResult EXCEPT !.op = "clear_cache"]
    /\ UNCHANGED <<ids, llm, contexts, result, users, sessions, attempts, user_data,
                   progress, store>>

\* KnowledgeBase.add_document: a document of one difficulty is added
add_document(difficulty) ==
    /\ difficulty \notin store
    /\ store' = store \cup {difficulty}
    /\ query_result' = [NoQueryResult EXCEPT !.op = "add_document"]
    /\ UNCHANGED <<ids, llm, contexts, result, users, sessions, attempts, user_data,
                   progress, query_cache>>

\* process_user_question (chat_handler.py): an unknown user is turned away;
\* otherwise a QueryProcessor is constructed for this one message (line 96),
\* asked once with the stored level of the user, and dropped
process_user_question(telegram_id, question) ==
    /\ users[telegram_id].registered
    /\ query_result' =
          [process_query_on(<< >>, store, question,
                            [kind |-> "dict",
                             difficulty |-> users[telegram_id].current_difficulty_level])
              .returned EXCEPT !.op = "process_user_question"]
    /\ UNCHANGED <<ids, llm, contexts, result, users, sessions, attempts, user_data,
                   progress, store, query_cache>>

(***************************************************************************)
(* Specifications.                                                         *)
(***************************************************************************)
\* after construction: no context, no row, empty user_data; the LLM is the
\* one the application was started with, if any
InitFor(participants, llms) ==
    /\ ids = participants
    /\ llm \in llms
    /\ contexts = << >>
    /\ result = NoResult
    /\ users = [t \in participants |-> NoUserRow]
    /\ sessions = << >>
    /\ attempts = << >>
    /\ user_data = [t \in participants |-> NoUserData]
    /\ progress = << >>
    /\ store = {}
    /\ query_cache = << >>
    /\ query_result = NoQueryResult

\* the part of the state space that is explored
ContextsBounded ==
    \A u \in DOMAIN contexts :
        /\ contexts[u].questions_answered <= MaxAnswered
        /\ contexts[u].consecutive_correct <= MaxStreak
        /\ contexts[u].consecutive_incorrect <= MaxStreak
TablesBounded ==
    /\ Len(attempts) <= MaxAttempts
    /\ Len(sessions) <= MaxSessions

\* the answer text of a recorded attempt; an attempt row refers to a users
\* row (foreign key user_id)
AnswerText(is_correct) == IF is_correct THEN "0" ELSE "1"

\* the start-of-session pipeline of LearningGraph, one user: assessment over
\* the recorded attempts, retrieval, LLM call, parsing, fallback
InitPipeline == InitFor({1}, BOOLEAN)
NextPipeline ==
    \/ \E value \in BOOLEAN : set_llm(value)
    \/ \E telegram_id \in ids : create_or_update_user(telegram_id)
    \/ \E user_id \in ids : start_learning_session(user_id)
    \/ \E user_id \in ids : clear_user_context(user_id)
    \/ \E telegram_id \in ids, is_correct \in BOOLEAN :
          /\ users[telegram_id].registered
          /\ record_question_attempt(users[telegram_id].id, AnswerText(is_correct),
                                     is_correct, 0)
          /\ TablesBounded'
SpecPipeline == InitPipeline /\ [][NextPipeline]_vars

\* answer processing of LearningGraph, one user: a caller starts sessions,
\* holds the generated question on the context and submits answers
InitAnswers == InitFor({1}, BOOLEAN)
NextAnswers ==
    \/ \E user_id \in ids : start_learning_session(user_id)
    \/ \E user_id \in ids : set_current_question(user_id)
    \/ \E user_id \in ids, answer \in Answers :
          process_answer(user_id, answer) /\ ContextsBounded'
SpecAnswers == InitAnswers /\ [][NextAnswers]_vars

\* the levels the difficulty menu and direct callers may ask for
RequestedLevels == 0..6

\* the two places a level is kept: the LearningGraph context and the users
\* row, under session starts, answers and manual changes (no LLM set)
InitLevel == InitFor({1}, {FALSE})
NextLevel ==
    \/ \E telegram_id \in ids : create_or_update_user(telegram_id)
    \/ \E telegram_id \in ids, difficulty_level \in RequestedLevels :
          update_difficulty_level(telegram_id, difficulty_level)
    \/ \E user_id \in ids : start_learning_session(user_id)
    \/ \E user_id \in ids : set_current_question(user_id)
    \/ \E user_id \in ids, answer \in Answers :
          process_answer(user_id, answer) /\ ContextsBounded'
    \/ \E telegram_id \in ids, is_correct \in BOOLEAN :
          /\ users[telegram_id].registered
          /\ record_question_attempt(users[telegram_id].id, AnswerText(is_correct),
                                     is_correct, 0)
          /\ TablesBounded'
SpecLevel == InitLevel /\ [][NextLevel]_vars

\* the learning_sessions table under the two UserService methods, two users
InitSessions == InitFor({1, 2}, {FALSE})
NextSessions ==
    \/ \E telegram_id \in ids : create_or_update_user(telegram_id)
    \/ \E telegram_id \in ids :
          /\ users[telegram_id].registered
          /\ UserService_create_learning_session(users[telegram_id].id)
          /\ TablesBounded'
    \/ \E session_id \in 1..MaxSessions, state \in SessionStates :
          update_session_state(session_id, state)
SpecSessions == InitSessions /\ [][NextSessions]_vars

\* the question_attempts and user_progress tables under the operations
\* that write attempts, lesson progress and sessions, one user.  Attempts
\* on stored questions are recorded without a session (session_id=None);
\* attempts on generated questions come from _save_question_attempt and
\* from skips.  update_lesson_progress is called with both values or none.
ProgressBounded ==
    /\ TablesBounded
    /\ Len(sessions) <= MaxLessonRows
InitAttempts == InitFor({1}, {FALSE})
NextAttempts ==
    \/ \E telegram_id \in ids : create_or_update_user(telegram_id)
    \/ \E telegram_id \in ids, question_id \in QuestionIds \ {0}, is_correct \in BOOLEAN :
          /\ users[telegram_id].registered
          /\ record_question_attempt_on(users[telegram_id].id, question_id,
                                        AnswerText(is_correct), is_correct, 0)
          /\ ProgressBounded'
    \/ \E telegram_id \in ids, is_correct \in BOOLEAN :
          /\ users[telegram_id].registered
          /\ save_question_attempt(users[telegram_id].id, AnswerText(is_correct),
                                   is_correct)
          /\ ProgressBounded'
    \/ \E telegram_id \in ids : handle_skip_question(telegram_id) /\ ProgressBounded'
    \/ \E telegram_id \in ids, percentage \in Percentages, status \in Statuses :
          /\ users[telegram_id].registered
          /\ (percentage = -1) <=> (status = "")
          /\ update_lesson_progress(users[telegram_id].id, 1, percentage, status)
    \/ \E telegram_id \in ids :
          /\ users[telegram_id].registered
          /\ UserService_create_learning_session(users[telegram_id].id)
          /\ ProgressBounded'
    \/ \E session_id \in 1..MaxLessonRows, state \in SessionStates :
          update_session_state(session_id, state)
SpecAttempts == InitAttempts /\ [][NextAttempts]_vars

\* the contexts dict of LearningGraph with two users, without an LLM: session
\* starts, held questions, answers and cleared contexts of either user in
\* any order.  The two contexts together hold at most MaxAttempts counted
\* answers and MaxStreak steps of streak.
RECURSIVE SumOver(_, _)
SumOver(f, S) ==
    IF S = {} THEN 0
    ELSE LET u == CHOOSE u \in S : TRUE IN f[u] + SumOver(f, S \ {u})
TwoUsersBounded ==
    /\ SumOver([u \in DOMAIN contexts |-> contexts[u].questions_answered],
               DOMAIN contexts) <= MaxAttempts
    /\ SumOver([u \in DOMAIN contexts |->
                  contexts[u].consecutive_correct + contexts[u].consecutive_incorrect],
               DOMAIN contexts) <= MaxStreak
InitTwoUsers == InitFor({1, 2}, {FALSE})
NextTwoUsers ==
    \/ \E user_id \in ids : start_learning_session(user_id)
    \/ \E user_id \in ids : set_current_question(user_id)
    \/ \E user_id \in ids, answer \in {"0", "1", "abc"} :
          process_answer(user_id, answer) /\ TwoUsersBounded'
    \/ \E user_id \in ids : clear_user_context(user_id)
SpecTwoUsers == InitTwoUsers /\ [][NextTwoUsers]_vars

\* the buttons answer_0 .. answer_3 of a question
Buttons == 0..3

\* answer buttons of one user, pressed any number of times on the question
\* that is shown (a question of the fallback bank).  The Application is built without
\* concurrent_updates (main.py 46-50), so one update is handled to its end
\* before the next: a handler run is one step.
ResubmitBounded ==
    /\ \A t \in ids : user_data[t].questions_answered <= MaxAttempts
    /\ Len(sessions) <= MaxLessonRows
    /\ Len(attempts) <= MaxAttempts
InitResubmit == InitFor({1}, {FALSE})
NextResubmit ==
    \/ \E telegram_id \in ids : create_or_update_user(telegram_id)
    \/ \E telegram_id \in ids : handle_start_questions(telegram_id) /\ ResubmitBounded'
    \/ \E telegram_id \in ids, button \in Buttons :
          handle_answer(telegram_id, button) /\ ResubmitBounded'
SpecResubmit == InitResubmit /\ [][NextResubmit]_vars

\* a lesson of the bot in which questions are answered (button 0 or 1, the
\* right and a wrong option of the fallback question) and skipped, one user,
\* no LLM set
SkipBounded ==
    /\ \A t \in ids : user_data[t].questions_answered <= MaxAttempts
    /\ Len(sessions) <= MaxLessonRows
    /\ Len(attempts) <= MaxAttempts
InitSkip == InitFor({1}, {FALSE})
NextSkip ==
    \/ \E telegram_id \in ids : create_or_update_user(telegram_id)
    \/ \E telegram_id \in ids : handle_start_questions(telegram_id) /\ SkipBounded'
    \/ \E telegram_id \in ids, button \in {0, 1} :
          handle_answer(telegram_id, button) /\ SkipBounded'
    \/ \E telegram_id \in ids : handle_skip_question(telegram_id) /\ SkipBounded'
SpecSkip == InitSkip /\ [][NextSkip]_vars

\* two users of the bot: each registers (the users row takes the next
\* autoincrement id), has attempts recorded under the id of the users row, as
\* the answer handler does (lesson_handler.py 676-684), and has sessions
\* started under the telegram id, as generate_and_show_question does
\* (lesson_handler.py 441, 463-464)
InitOwnAttempts == InitFor({1, 2}, {FALSE})
NextOwnAttempts ==
    \/ \E telegram_id \in ids : create_or_update_user(telegram_id)
    \/ \E telegram_id \in ids : start_learning_session(telegram_id)
    \/ \E telegram_id \in ids, is_correct \in BOOLEAN :
          /\ users[telegram_id].registered
          /\ record_question_attempt(users[telegram_id].id, AnswerText(is_correct),
                                     is_correct, 0)
          /\ TablesBounded'
SpecOwnAttempts == InitOwnAttempts /\ [][NextOwnAttempts]_vars

\* retrieval: one long-lived QueryProcessor asked by a caller that awaits
\* every call, documents loaded into the store meanwhile, and the chat
\* handler with its processor per message
InitQueries == InitFor({1}, {FALSE})
NextQueries ==
    \/ \E telegram_id \in ids : create_or_update_user(telegram_id)
    \/ \E difficulty \in DocLevels : add_document(difficulty)
    \/ \E query \in Queries, user_context \in UserContexts :
          process_query(query, user_context)
    \/ clear_cache
    \/ \E telegram_id \in ids, question \in Queries :
          process_user_question(telegram_id, question)
SpecQueries == InitQueries /\ [][NextQueries]_vars

\* retrieval after KnowledgeBase.initialize has loaded the documents of
\* every difficulty: the store no longer changes, callers of different
\* levels ask the long-lived processor
InitLoaded ==
    /\ ids = {1}
    /\ llm = FALSE
    /\ contexts = << >>
    /\ result = NoResult
    /\ users = [t \in {1} |-> NoUserRow]
    /\ sessions = << >>
    /\ attempts = << >>
    /\ user_data = [t \in {1} |-> NoUserData]
    /\ progress = << >>
    /\ store = DocLevels
    /\ query_cache = << >>
    /\ query_result = NoQueryResult
NextLoaded ==
    \/ \E telegram_id \in ids : create_or_update_user(telegram_id)
    \/ \E query \in Queries, user_context \in UserContexts :
          process_query(query, user_context)
    \/ clear_cache
    \/ \E telegram_id \in ids, question \in Queries :
          process_user_question(telegram_id, question)
SpecLoaded == InitLoaded /\ [][NextLoaded]_vars

LessonBounded ==
    /\ \A t \in ids : user_data[t].questions_answered <= MaxAnswered
    /\ Len(sessions) <= MaxLessonRows
    /\ Len(attempts) <= MaxLessonRows

\* the lesson flow of the bot without an LLM, one user; updates are
\* handled one at a time
Init == InitFor({1}, {FALSE})
Next ==
    \/ \E telegram_id \in ids : create_or_update_user(telegram_id)
    \/ \E telegram_id \in ids, difficulty_level \in Levels :
          update_difficulty_level(telegram_id, difficulty_level)
    \/ \E telegram_id \in ids : handle_start_learning(telegram_id)
    \/ \E telegram_id \in ids : handle_start_questions(telegram_id) /\ LessonBounded'
    \/ \E telegram_id \in ids : handle_next_question(telegram_id)
    \/ \E telegram_id \in ids : handle_skip_question(telegram_id) /\ LessonBounded'
    \/ \E telegram_id \in ids, button \in Buttons :
          handle_answer(telegram_id, button) /\ LessonBounded'
    \/ \E telegram_id \in ids : handle_complete_lesson(telegram_id)
Spec == Init /\ [][Next]_vars

\* answer evaluation in both places, one user.  LearningGraph is driven
\* either by a direct caller, who holds the question on the context and
\* submits answer strings, or by the bot, whose user presses answer buttons:
\* no direct call is made once the bot holds dialogue data of the user, and
\* the bot does not run on a context a direct caller has put a question on.
CallerDrives == \A t \in ids : user_data[t] = NoUserData
BotDrives == \A u \in DOMAIN contexts : ~contexts[u].has_current_question

InitDialogue == InitFor({1}, BOOLEAN)
NextDialogue ==
    \/ \E user_id \in ids : CallerDrives /\ start_learning_session(user_id)
    \/ \E user_id \in ids : CallerDrives /\ set_current_question(user_id)
    \/ \E user_id \in ids, answer \in Answers :
          CallerDrives /\ process_answer(user_id, answer) /\ ContextsBounded'
    \/ \E telegram_id \in ids :
          BotDrives /\ handle_start_questions(telegram_id) /\ LessonBounded'
    \/ \E telegram_id \in ids, button \in Buttons :
          BotDrives /\ handle_answer(telegram_id, button) /\ LessonBounded'
SpecDialogue == InitDialogue /\ [][NextDialogue]_vars

(***************************************************************************)
(* Properties.                                                             *)
(***************************************************************************)
\* the step of u is an evaluated answer: _process_answer_direct counted it
Answered(u) ==
    /\ u \in DOMAIN contexts
    /\ u \in DOMAIN contexts'
    /\ contexts'[u].questions_answered = contexts[u].questions_answered + 1
\* ... and judged it correct
JudgedCorrect(u) == contexts'[u].correct_answers = contexts[u].correct_answers + 1

\* x brought into 1..5
Clamped(x) == IF x > MaxLevel THEN MaxLevel ELSE IF x < MinLevel THEN MinLevel ELSE x

\* the structural contract of a question object: a text, exactly four
\* options, correct_answer an index into them, an explanation
OptionsInContract(q) ==
    /\ Len(Get(q, "options", <<>>)) = 4
    /\ "correct_answer" \in q.keys
    /\ q.correct_answer \in 0..3
InContract(q) ==
    /\ Get(q, "question", "") # ""
    /\ OptionsInContract(q)
    /\ Get(q, "explanation", "") # ""

\* the reply r is text that json.loads accepts: a bare JSON document, or one
\* between an opening and a closing fence
Decodable(r) ==
    /\ ~r.raises
    /\ r.body.json
    /\ \/ r.prefix = "" /\ r.suffix = ""
       \/ r.prefix \in {"fence_json", "fence"} /\ r.suffix = "fence"

\* the last call was a session start
Started == result.op = "start_learning_session"
\* ... whose pipeline reached the LLM
LlmCalled == Started /\ result.response # NotCalled

\* C1: every LearningContext.current_difficulty and every stored
\* User.current_difficulty_level is an integer in 1..5, whatever session
\* starts (with their assessment), answers and manual changes came before.
C1_LevelInRange ==
    /\ \A u \in DOMAIN contexts : contexts[u].current_difficulty \in Levels
    /\ \A t \in ids : users[t].registered => users[t].current_difficulty_level \in Levels

\* a correct answer was processed at level 5 (streak of at least 2, no
\* adaptation made) while the stored level of the user is 5 as well
C1_Witness ==
    /\ result.op = "process_answer"
    /\ result.is_correct
    /\ result.has_adaptation /\ ~result.adaptation_made
    /\ 1 \in DOMAIN contexts
    /\ contexts[1].current_difficulty = 5
    /\ contexts[1].consecutive_correct >= 2
    /\ users[1].registered
    /\ users[1].current_difficulty_level = 5

\* C2: a session start always returns a result that holds a generated
\* question and no error, for every outcome of retrieval and of the LLM call.
C2_AlwaysQuestion ==
    Started => result.has_generated_question /\ ~result.error

\* C3: every question object handed to the caller, and every question
\* stored as a current question, has exactly 4 options and a correct_answer
\* in 0..3.
C3_QuestionInContract ==
    /\ Started /\ result.has_generated_question
          => OptionsInContract(result.generated_question)
    /\ \A u \in DOMAIN contexts :
          contexts[u].has_current_question
             => OptionsInContract(contexts[u].current_question)

\* C4: an answer judged correct never lowers the level and leaves level 5 at
\* 5; an answer judged incorrect never raises it and leaves level 1 at 1.
C4_Monotone ==
    [][\A u \in ids :
          Answered(u) =>
             LET before == contexts[u].current_difficulty
                 after  == contexts'[u].current_difficulty
             IN  IF JudgedCorrect(u)
                 THEN after >= before /\ (before = 5 => after = 5)
                 ELSE after <= before /\ (before = 1 => after = 1)]_vars

\* at level 1 an incorrect answer was processed on a streak of at least two
\* incorrect answers, and no adaptation was made
C4_Witness ==
    /\ result.op = "process_answer"
    /\ ~result.error /\ ~result.is_correct
    /\ result.has_adaptation /\ ~result.adaptation_made
    /\ result.current_difficulty = 1
    /\ 1 \in DOMAIN contexts
    /\ contexts[1].consecutive_incorrect >= 2

\* C5: per-turn rule: every evaluated answer moves the level by exactly one
\* step, up when correct and down when incorrect, except at the bounds.
C5_PerTurn ==
    [][\A u \in ids :
          Answered(u) =>
             contexts'[u].current_difficulty =
                IF JudgedCorrect(u)
                THEN Clamped(contexts[u].current_difficulty + 1)
                ELSE Clamped(contexts[u].current_difficulty - 1)]_vars

\* C6: hysteresis: an evaluated answer changes the level only by one step up
\* with consecutive_correct >= 2 after counting it, or one step down with
\* consecutive_incorrect >= 2 after counting it; the first answer of a
\* streak leaves the level alone; a correct answer that makes the streak 2
\* or more raises every level below 5 by one.
C6_Hysteresis ==
    [][\A u \in ids :
          Answered(u) =>
             LET before == contexts[u].current_difficulty
                 after  == contexts'[u].current_difficulty
                 cc     == contexts'[u].consecutive_correct
                 ci     == contexts'[u].consecutive_incorrect
             IN  /\ after # before =>
                       \/ cc >= 2 /\ before < 5 /\ after = before + 1
                       \/ ci >= 2 /\ before > 1 /\ after = before - 1
                 /\ (cc = 1 \/ ci = 1) => after = before
                 /\ (JudgedCorrect(u) /\ cc >= 2 /\ before < 5) => after = before + 1]_vars

\* level 2 right after the second of two consecutive correct answers of the
\* first lesson
C6_Witness ==
    /\ result.op = "process_answer"
    /\ result.is_correct /\ result.adaptation_made
    /\ result.current_difficulty = 2
    /\ 1 \in DOMAIN contexts
    /\ contexts[1].consecutive_correct = 2
    /\ contexts[1].questions_answered = 2
    /\ contexts[1].correct_answers = 2

\* C7: no user has more than one learning session in state active.
C7_OneActiveSession ==
    \A t \in ids :
       Cardinality({i \in 1..Len(sessions) :
                       /\ sessions[i].user_id = users[t].id
                       /\ users[t].registered
                       /\ sessions[i].session_state = "active"}) <= 1

\* C8: when the LLM call raises or its reply is malformed (no JSON, or JSON
\* with missing or invalid fields), the session start returns the static
\* fallback question.
C8_MalformedToFallback ==
    (LlmCalled /\ (~Decodable(result.response)
                      \/ ~InContract(result.response.body.data)))
       => /\ result.has_generated_question
          /\ \E d \in DOMAIN fallback_questions :
                result.generated_question = fallback_questions[d]

\* C9: when the LLM answers with text that is no JSON, the question returned
\* carries the requested level in its difficulty field.
C9_FallbackDifficulty ==
    (LlmCalled /\ ~result.response.raises /\ ~Decodable(result.response)
       /\ result.user_id \in DOMAIN contexts)
       => /\ result.has_generated_question
          /\ Get(result.generated_question, "difficulty", 0)
                = contexts[result.user_id].current_difficulty

\* C10: whenever the pipeline falls back (LLM absent, raising, or answering
\* with text that is no JSON), at every level the question returned is the
\* level-1 entry of the bank: four options, a correct_answer index inside
\* them and an explanation.
C10_FallbackUsable ==
    (Started /\ result.has_generated_question /\ ~Decodable(result.response))
       => /\ InContract(result.generated_question)
          /\ result.generated_question = fallback_questions[1]

\* the LLM raised at level 3, which has no authored entry, and the question
\* returned is in contract
C10_Witness ==
    /\ LlmCalled
    /\ result.response.raises
    /\ 1 \in DOMAIN contexts
    /\ contexts[1].current_difficulty = 3
    /\ result.has_generated_question
    /\ InContract(result.generated_question)

\* the question q names one of its own options as the correct one
IndexInside(q) ==
    /\ "correct_answer" \in q.keys
    /\ q.correct_answer \in 0..(Len(Get(q, "options", <<>>)) - 1)

\* C11: round trip.  Whenever the current question names one of its own
\* options as correct_answer, submitting that index is evaluated as correct
\* and counted as a correct answer: as the digit string given to
\* LearningGraph.process_answer, and as the answer button of handle_answer.
C11_RoundTrip ==
    [][\A u \in ids :
          /\ \A answer \in Answers :
                ( /\ u \in DOMAIN contexts
                  /\ contexts[u].has_current_question
                  /\ IndexInside(contexts[u].current_question)
                  /\ answer = ToString(contexts[u].current_question.correct_answer)
                  /\ process_answer(u, answer) )
                => /\ result'.is_correct
                   /\ ~result'.error
                   /\ Answered(u)
                   /\ JudgedCorrect(u)
          /\ \A button \in Buttons :
                ( /\ user_data[u].has_current_question
                  /\ IndexInside(user_data[u].current_question)
                  /\ button = user_data[u].current_question.correct_answer
                  /\ handle_answer(u, button) )
                => /\ result'.is_correct
                   /\ ~result'.error
                   /\ user_data'[u].questions_answered = user_data[u].questions_answered + 1
                   /\ user_data'[u].correct_answers = user_data[u].correct_answers + 1
     ]_vars
\* reached: the own index of a question was judged correct in both places,
\* by the graph for a caller and by the handler for a button
C11_Witness ==
    /\ result.op = "handle_answer"
    /\ result.is_correct
    /\ \E u \in ids : user_data[u].correct_answers >= 1
                      /\ IndexInside(user_data[u].current_question)
C11_WitnessGraph ==
    /\ result.op = "process_answer"
    /\ result.is_correct
    /\ \E u \in DOMAIN contexts : contexts[u].correct_answers >= 1
                                  /\ IndexInside(contexts[u].current_question)

\* the answer is not the decimal notation of an integer
NonNumeric(answer) == answer \notin DOMAIN DigitValue

\* C12: a non-numeric answer to a current question is evaluated as
\* incorrect without an error: the call returns is_correct = false and the
\* answer is counted as one answered question and no correct one.
C12_NonNumericIncorrect ==
    [][\A u \in ids, answer \in Answers :
          ( /\ u \in DOMAIN contexts
            /\ contexts[u].has_current_question
            /\ NonNumeric(answer)
            /\ process_answer(u, answer) )
          => /\ ~result'.error
             /\ ~result'.is_correct
             /\ Answered(u)
             /\ ~JudgedCorrect(u)
     ]_vars

\* C13: an answer that _process_answer_direct has counted returns
\* completion data exactly when questions_answered has then reached
\* questions_per_lesson, and the completion data say passed exactly when
\* correct_answers / questions_answered * 100 >= min_lesson_score.
C13_CompletionAtThreshold ==
    [][\A u \in ids, answer \in Answers :
          (process_answer(u, answer) /\ Answered(u))
          => /\ result'.has_completion_data
                  <=> contexts'[u].questions_answered >= questions_per_lesson
             /\ result'.has_completion_data
                  => (result'.lesson_passed
                        <=> contexts'[u].correct_answers * 100
                               >= min_lesson_score * contexts'[u].questions_answered)
     ]_vars

\* C14: in the bot, an answer that brings the number of counted answers to
\* the lesson threshold or beyond ends the lesson (passed or needs-review),
\* and no further question is shown once the threshold has been reached.
C14_LessonEndsAtThreshold ==
    [][\A t \in ids :
          /\ \A button \in Buttons :
                ( /\ handle_answer(t, button)
                  /\ user_data'[t].questions_answered = user_data[t].questions_answered + 1
                  /\ user_data'[t].questions_answered >= lesson_questions )
                => result'.has_completion_data
          /\ ( /\ handle_next_question(t)
               /\ user_data[t].questions_answered >= lesson_questions )
             => user_data'[t] = user_data[t]
     ]_vars

\* C15: when a lesson of a registered user completes (the "complete lesson"
\* button after the threshold was reached), a UserProgress row of the user
\* holds the outcome and none of the user's LearningSession rows is still
\* 'active'.
C15_CompletionPersisted ==
    [][\A t \in ids :
          ( /\ handle_complete_lesson(t)
            /\ users[t].registered
            /\ user_data[t].questions_answered >= lesson_questions )
          => /\ \E i \in DOMAIN progress' : progress'[i].user_id = users[t].id
             /\ \A i \in DOMAIN sessions' :
                   sessions'[i].user_id = users[t].id
                      => sessions'[i].session_state # "active"
     ]_vars

\* C16: every answer button of a registered user that handle_answer
\* evaluates against the current question and counts appends exactly one
\* QuestionAttempt of that user, holding the pressed index and the verdict.
C16_AttemptPerAnswer ==
    [][\A t \in ids, button \in Buttons :
          ( /\ handle_answer(t, button)
            /\ users[t].registered
            /\ user_data[t].has_current_question
            /\ user_data'[t].questions_answered = user_data[t].questions_answered + 1 )
          => /\ Len(attempts') = Len(attempts) + 1
             /\ SubSeq(attempts', 1, Len(attempts)) = attempts
             /\ attempts'[Len(attempts')].user_id = users[t].id
             /\ attempts'[Len(attempts')].user_answer = ToString(button)
             /\ attempts'[Len(attempts')].is_correct = result'.is_correct
     ]_vars

\* the attempts of user_id on questions of lesson_id
AttemptsOnLesson(user_id, lesson_id) ==
    Cardinality({i \in 1..Len(attempts) :
                    /\ attempts[i].user_id = user_id
                    /\ attempts[i].question_id # 0
                    /\ lesson_id_of(attempts[i].question_id) = lesson_id})
\* the total_attempts of the UserProgress of (user_id, lesson_id), 0 without a row
CountedOnLesson(user_id, lesson_id) ==
    LET found == progress_of(progress, user_id, lesson_id)
    IN  IF found = {} THEN 0 ELSE progress[CHOOSE i \in found : TRUE].total_attempts

\* C17: the attempt insert and the progress update of record_question_attempt
\* are one transaction: no attempt on a question of a lesson is stored
\* without being counted in the UserProgress of that user and lesson.
C17_AttemptAtomicWithProgress ==
    \A t \in ids :
        users[t].registered
           => AttemptsOnLesson(users[t].id, 1) = CountedOnLesson(users[t].id, 1)

\* C18: question_attempts is an append-only log.  Recording an answer or a
\* skip, updating lesson progress and creating or changing a session leave
\* every stored attempt as it is, in place, and at most add rows at the end.
C18_AppendOnly ==
    [][/\ Len(attempts') >= Len(attempts)
       /\ SubSeq(attempts', 1, Len(attempts)) = attempts]_vars
\* reached: a skip was recorded after an earlier attempt, with a lesson
\* progress row written and a session no longer active
C18_Witness ==
    /\ Len(attempts) >= 2
    /\ attempts[Len(attempts)].user_answer = "skipped"
    /\ attempts[1].user_answer # "skipped"
    /\ Len(progress) >= 1
    /\ \E i \in DOMAIN sessions : sessions[i].session_state # "active"

\* C19: an answer submitted without a learning context or without a current
\* question gets an error result (LearningGraph.process_answer) or the
\* error message (handle_answer) and changes nothing else: the counters,
\* streaks and level of every context, the dialogue data, the stored levels
\* and the recorded attempts are as before.
C19_NoQuestionNoChange ==
    [][\A u \in ids :
          /\ \A answer \in Answers :
                ( /\ u \notin DOMAIN contexts \/ ~contexts[u].has_current_question
                  /\ process_answer(u, answer) )
                => /\ result'.error
                   /\ ~result'.is_correct
                   /\ UNCHANGED <<rag, contexts, user_data, users, attempts, sessions, progress>>
          /\ \A button \in Buttons :
                ( /\ \/ ~user_data[u].has_current_question
                     \/ user_data[u].current_question.keys = {}
                  /\ handle_answer(u, button) )
                => /\ result'.error
                   /\ ~result'.is_correct
                   /\ UNCHANGED <<rag, contexts, user_data, users, attempts, sessions, progress>>
     ]_vars
\* reached: an answer was refused for a user who has a context with
\* counted answers but no current question
C19_Witness ==
    /\ result.op = "process_answer"
    /\ result.error
    /\ \E u \in DOMAIN contexts : ~contexts[u].has_current_question
C19_WitnessBot ==
    /\ result.op = "handle_answer"
    /\ result.error
    /\ \E t \in ids : ~user_data[t].has_current_question

\* C20: the question held in user_data is discarded once an answer to it
\* has been evaluated: it is no longer the current question, and an answer
\* button pressed again right after an evaluated answer is not evaluated
\* (it counts no answered question and changes no level).
C20_QuestionAnsweredOnce ==
    [][\A t \in ids, button \in Buttons :
          /\ ( /\ handle_answer(t, button)
               /\ user_data'[t].questions_answered = user_data[t].questions_answered + 1 )
             => ~user_data'[t].has_current_question
          /\ ( /\ result.op = "handle_answer"
               /\ result.user_id = t
               /\ ~result.error
               /\ handle_answer(t, button) )
             => /\ user_data'[t].questions_answered = user_data[t].questions_answered
                /\ user_data'[t].current_difficulty = user_data[t].current_difficulty
                /\ users' = users
     ]_vars

\* the context of user B is the same object with the same content after the step
SameContext(B) ==
    IF B \in DOMAIN contexts
    THEN B \in DOMAIN contexts' /\ contexts'[B] = contexts[B]
    ELSE B \notin DOMAIN contexts'

\* C21: a session start or an answer processed for user A leaves the
\* LearningContext of every other user B as it was: level, counters,
\* streaks and current question.
C21_ContextIsolation ==
    [][\A A \in ids, B \in ids :
          ( /\ A # B
            /\ \/ start_learning_session(A)
               \/ \E answer \in Answers : process_answer(A, answer) )
          => SameContext(B)
     ]_vars
\* reached: both users hold a context with counted answers, and the two
\* contexts differ, after an answer of user 1
C21_Witness ==
    /\ result.op = "process_answer"
    /\ result.user_id = 1
    /\ 1 \in DOMAIN contexts
    /\ 2 \in DOMAIN contexts
    /\ contexts[1].questions_answered >= 1
    /\ contexts[2].questions_answered >= 1
    /\ contexts[1] # contexts[2]

\* the last step was an answer of t that went through the adaptive branch
Adapted(t) ==
    /\ result.op = "handle_answer"
    /\ result.user_id = t
    /\ ~result.error
    /\ result.has_adaptation

CallsOf(kind) == {i \in 1..Len(result.calls) : result.calls[i] = kind}

IsProcessQuery ==
    /\ query_result'.op = "process_query"
    /\ UNCHANGED <<users, store>>

\* C24: once a result is stored under a normalized query, every later
\* process_query whose query normalizes to that key returns the stored
\* result and makes no search; and whatever the step, a stored entry stays
\* as it is unless the step is clear_cache.
C24_Memoized ==
    [][ /\ (IsProcessQuery /\ query_result'.key \in DOMAIN query_cache)
              => /\ ~query_result'.error
                 /\ query_result'.value = query_cache[query_result'.key]
                 /\ query_result'.searches = 0
        /\ query_result'.op # "clear_cache"
              => \A k \in DOMAIN query_cache :
                    k \in DOMAIN query_cache' /\ query_cache'[k] = query_cache[k]
      ]_vars

\* an entry stored before documents were loaded is returned, under another
\* spelling of the query, after the store has changed
C24_Witness ==
    /\ store # {}
    /\ query_result.op = "process_query"
    /\ query_result.searches = 0
    /\ <<"r">> \in DOMAIN query_cache
    /\ query_result.value = query_cache[<<"r">>]
    /\ query_result.value.query = <<"R", "?">>
    /\ query_result.value.relevant_documents = {}

\* C30: a call of process_query receives the context retrieved for the
\* difficulty of its own user_context, whatever was computed earlier for a
\* caller whose query normalizes to the same key.
C30_ContextOfCaller ==
    [][ \A query \in Queries, user_context \in UserContexts :
          (IsProcessQuery
             /\ ~user_context_raises(user_context)
             /\ process_query(query, user_context))
            => query_result'.value.context =
                  get_context_for_question(store, user_difficulty(user_context)).context
      ]_vars

\* C25: a level change does not reset the streak counters: every counted
\* correct answer that follows a correct one lengthens the streak and raises
\* the level by one, up to 5, and every counted incorrect answer that
\* follows an incorrect one lengthens the streak and lowers the level by
\* one, down to 1.
C25_StreakKeepsMoving ==
    [][\A u \in ids :
          Answered(u) =>
             LET before == contexts[u].current_difficulty
                 after  == contexts'[u].current_difficulty
             IN  IF JudgedCorrect(u)
                 THEN /\ contexts'[u].consecutive_correct
                            = contexts[u].consecutive_correct + 1
                      /\ contexts[u].consecutive_correct >= 1
                            => after = Clamped(before + 1)
                 ELSE /\ contexts'[u].consecutive_incorrect
                            = contexts[u].consecutive_incorrect + 1
                      /\ contexts[u].consecutive_incorrect >= 1
                            => after = Clamped(before - 1)]_vars

\* C26: start_learning_session for a user who has a context sets
\* questions_answered and correct_answers to 0 and leaves consecutive_correct
\* and consecutive_incorrect as they were.
C26_SessionKeepsStreaks ==
    [][\A u \in ids :
          (u \in DOMAIN contexts
             /\ result'.op = "start_learning_session"
             /\ start_learning_session(u))
            => /\ contexts'[u].questions_answered = 0
               /\ contexts'[u].correct_answers = 0
               /\ contexts'[u].consecutive_correct = contexts[u].consecutive_correct
               /\ contexts'[u].consecutive_incorrect = contexts[u].consecutive_incorrect
      ]_vars

\* the first answer of a session, correct, raised the level: the streak it
\* completed began in the session before
C26_Witness ==
    /\ result.op = "process_answer"
    /\ result.is_correct /\ result.adaptation_made
    /\ 1 \in DOMAIN contexts
    /\ contexts[1].questions_answered = 1
    /\ contexts[1].consecutive_correct >= 2

\* C27: in every LearningContext, 0 <= correct_answers <= questions_answered,
\* both streak counters are non-negative and at most one of them is
\* non-zero, whatever session starts and answers came before.
C27_CounterInvariant ==
    \A u \in DOMAIN contexts :
        /\ 0 <= contexts[u].correct_answers
        /\ contexts[u].correct_answers <= contexts[u].questions_answered
        /\ contexts[u].consecutive_correct >= 0
        /\ contexts[u].consecutive_incorrect >= 0
        /\ contexts[u].consecutive_correct = 0 \/ contexts[u].consecutive_incorrect = 0

\* after a session start and one incorrect answer that ended a streak of
\* correct answers begun in the session before
C27_Witness ==
    /\ result.op = "process_answer"
    /\ ~result.error /\ ~result.is_correct
    /\ 1 \in DOMAIN contexts
    /\ contexts[1].current_difficulty >= 2
    /\ contexts[1].questions_answered = 1
    /\ contexts[1].correct_answers = 0
    /\ contexts[1].consecutive_correct = 0
    /\ contexts[1].consecutive_incorrect = 1

OwnAttempts(telegram_id) ==
    IF users[telegram_id].registered
    THEN RecentAttemptsIn(attempts, users[telegram_id].id)
    ELSE << >>

\* C29: the level a session start leaves in the context of a user is the
\* level before, or that level assessed on the user's own recorded attempts:
\* the attempts of another user play no part in it.
C29_OwnAttemptsOnly ==
    [][\A t \in ids :
          (result'.op = "start_learning_session" /\ start_learning_session(t))
            => contexts'[t].current_difficulty
                 \in {session_context(t).current_difficulty,
                      assess_difficulty(session_context(t).current_difficulty,
                                        OwnAttempts(t))}
      ]_vars
====
